---- MODULE Spec2Model ----
(***************************************************************************)
(* The download orchestration of animecix_scraper (main.py; services.py    *)
(* holds the same routine): the job registry `tasks`, the background run   *)
(* routine scrape_all_episodes_task with its nested process_episode units, *)
(* the per-run semaphore, the batch loop, the snapshot written at the end, *)
(* and the two HTTP handlers that submit and query a job.                  *)
(*                                                                         *)
(* All coroutines run on one asyncio event loop: a coroutine runs without  *)
(* interruption from one await to the next.  An action is one such block;  *)
(* where a claim is about the statements inside a block, the block is cut  *)
(* into steps and `cpu` names the coroutine that is in the middle of its   *)
(* block: nothing else runs until it reaches its next await.               *)
(*                                                                         *)
(* Strings that the code takes apart or builds (titles, file names) are    *)
(* sequences of one-character strings; the others are TLA+ strings.        *)
(***************************************************************************)
EXTENDS Integers, Sequences, FiniteSets, TLC

\* ------------------------------------------------------------- bounds
MaxEpsShared == 1   \* episodes per title when several jobs are submitted
MaxEpisodes == 6    \* episodes per title when one job is submitted
MaxNameLen == 3     \* characters of a file name handed to the sanitizer
PerSeason == 4      \* episodes per season page of the modelled site

\* ------------------------------------------------- program constants
batch_size == 5
SemaphoreValue == 1

\* The ids str(uuid.uuid4()) yields in a run of the model, in this order
Uuids == <<"t1", "t2">>
JobIds == {Uuids[n] : n \in DOMAIN Uuids}

\* The two loads the model is run under: several jobs over short episode
\* lists, or one job over a list longer than a batch.
Loads ==
  {[jobs |-> Cardinality(JobIds), eps |-> MaxEpsShared],
   [jobs |-> 1, eps |-> MaxEpisodes]}

\* ------------------------------------------------------------ strings
Min(S) == CHOOSE x \in S : \A y \in S : x <= y
Max(S) == CHOOSE x \in S : \A y \in S : x >= y

Whitespace == {" ", "\t", "\n"}

\* str.replace(old, new) for one-character old and new
Replace(s, old, new) == [k \in 1..Len(s) |-> IF s[k] = old THEN new ELSE s[k]]

\* str.replace(char, '')
Remove(s, char) == SelectSeq(s, LAMBDA c : c # char)

\* str.strip()
Strip(s) ==
  LET keep == {k \in 1..Len(s) : s[k] \notin Whitespace}
  IN  IF keep = {} THEN <<>> ELSE SubSeq(s, Min(keep), Max(keep))

IllegalChars == <<"<", ">", ":", "\"", "/", "\\", "|", "?", "*">>

RECURSIVE RemoveAll(_, _)
RemoveAll(s, chars) ==
  IF chars = <<>> THEN s
  ELSE RemoveAll(Remove(s, Head(chars)), Tail(chars))

\* Variant: str.replace(char, '', 1), which removes the first occurrence only
RemoveFirst(s, char) ==
  LET at == {k \in 1..Len(s) : s[k] = char}
  IN  IF at = {} THEN s
      ELSE SubSeq(s, 1, Min(at) - 1) \o SubSeq(s, Min(at) + 1, Len(s))

RECURSIVE RemoveAllFirst(_, _)
RemoveAllFirst(s, chars) ==
  IF chars = <<>> THEN s
  ELSE RemoveAllFirst(RemoveFirst(s, Head(chars)), Tail(chars))

_sanitize_filename_first(s) == RemoveAllFirst(s, IllegalChars)

_sanitize_filename(s) == RemoveAll(s, IllegalChars)

\* details.get("title", "Unknown").replace("/", "-").strip()
SanitizeTitle(title) == Strip(Replace(title, "/", "-"))

Digits == <<"0", "1", "2", "3", "4", "5", "6", "7", "8", "9">>
\* the decimal digits of a number below 100, as the site's URLs carry them
NumStr(n) ==
  IF n < 10 THEN <<Digits[n + 1]>>
  ELSE <<Digits[(n \div 10) + 1], Digits[(n % 10) + 1]>>

SeasonDir(ep) == <<"S", "e", "a", "s", "o", "n", " ">> \o ep.season

RawFilename(anime_title, ep) ==
  anime_title \o <<" ", "-", " ", "S">> \o ep.season \o <<"E">> \o ep.number
    \o <<".", "m", "p", "4">>

\* os.path.join("data", anime_title, season_dir, filename): the segments
JoinPath(anime_title, season_dir, filename) ==
  <<<<"d", "a", "t", "a">>, anime_title, season_dir, filename>>

\* --------------------------------------------------- collaborators
\* An exception is its argument tuple; str(e) of an exception raised without
\* arguments is the empty string.
StrExc(e) == IF Len(e) = 0 THEN "" ELSE e[1]

\* What the collaborators raise: get_anime_details, get_video_source and the
\* snapshot write
DetailsExceptions == {<<>>, <<"Timeout 30000ms exceeded">>}
ResolverExceptions == {<<"Target closed">>}
WriteExceptions == {<<"Permission denied">>}

\* Titles the Details Resolver reads from the page
Titles == {<<" ", "B", "/", ":">>}

\* Episode k of the site: AnimeScraper.get_anime_details builds these dicts
Episode(k) ==
  [season |-> NumStr(((k - 1) \div PerSeason) + 1),
   number |-> NumStr(((k - 1) % PerSeason) + 1),
   url |-> <<"episode", k>>]

\* What get_anime_details returns for a title with n episodes
Details(title, n) ==
  LET nSeasons == (n + PerSeason - 1) \div PerSeason
  IN  [title |-> title,
       seasons |->
         [s \in 1..nSeasons |->
            [season_number |-> NumStr(s),
             episodes |->
               [e \in 1..(IF s * PerSeason <= n THEN PerSeason
                          ELSE n - (s - 1) * PerSeason) |->
                  Episode((s - 1) * PerSeason + e)]]]]

\* all_episodes: the nested loops over seasons and episodes
RECURSIVE Flatten(_)
Flatten(seasons) ==
  IF seasons = <<>> THEN <<>>
  ELSE Head(seasons).episodes \o Flatten(Tail(seasons))

\* What get_video_source does: return a URL, return a falsy value, raise
VideoUrls == {"http://cdn/v.mp4"}
ResolverOutcomes ==
  [kind : {"return"}, value : {<<u>> : u \in VideoUrls} \cup {<<>>, <<"">>}]
    \cup [kind : {"raise"}, exc : ResolverExceptions]

\* What happens inside download_file: a 200 answer written to disk, another
\* HTTP status, or an exception (makedirs, the session, the write)
TransferOutcomes == {"ok", "http_error", "raise"}

\* download_file: False unless the answer was 200 and was written
download_file(t) == t = "ok"

\* What writing the snapshot file does: written, open() raises, or
\* json.dump raises with the file already opened for writing
WriteOutcomes == {"ok", "open_raises", "dump_raises"}

AnimeUrls == {"https://animecix.tv/titles/1"}

\* ---------------------------------------------------------- state
VARIABLES
  tasks,         \* the registry: task id -> the job's dict
  files,         \* the snapshot files: file name -> content
  pc,            \* where each job's run routine is
  anime_title,   \* local of the run routine
  all_episodes,  \* local of the run routine
  i,             \* local of the run routine: the batch loop's index
  semaphore,     \* the run's asyncio.Semaphore: its value
  unit,          \* the process_episode coroutines of the batch being gathered
  cpu,           \* {j} while job j's routine is between two awaits, else {}
  response,      \* the HTTP response the step sends, if it is a handler's
  detailsLog,    \* per job: what its get_anime_details call did
  resolverLog,   \* per job and episode: what each get_video_source call did
  transferLog,   \* per job and episode: each download_file call
  load,          \* the load this run of the model is under
  outOfOrder,    \* per job: a unit of the batch being gathered returned before
                 \* a unit that stands earlier in the batch
  name,          \* a file name handed to _sanitize_filename
  cleaned        \* what the successive calls of _sanitize_filename on it returned

\* The state of the sanitizer's own specification (SanSpec, below)
sanVars == <<name, cleaned>>

vars ==
  <<tasks, files, pc, anime_title, all_episodes, i, semaphore, unit, cpu,
    response, detailsLog, resolverLog, transferLog, load, outOfOrder, sanVars>>

\* d[key] = value on a dict
SetKey(d, key, value) == (key :> value) @@ d
Has(d, key) == key \in DOMAIN d

NoResponse == [code |-> "none"]

Init ==
  /\ tasks = <<>>
  /\ files = <<>>
  /\ pc = [j \in JobIds |-> "none"]
  /\ anime_title = [j \in JobIds |-> <<>>]
  /\ all_episodes = [j \in JobIds |-> <<>>]
  /\ i = [j \in JobIds |-> 0]
  /\ semaphore = [j \in JobIds |-> 0]
  /\ unit = [j \in JobIds |-> <<>>]
  /\ cpu = {}
  /\ response = NoResponse
  /\ detailsLog = [j \in JobIds |-> "none"]
  /\ resolverLog = [j \in JobIds |-> <<>>]
  /\ transferLog = [j \in JobIds |-> <<>>]
  /\ load \in Loads
  /\ outOfOrder = [j \in JobIds |-> FALSE]
  /\ name = <<>>
  /\ cleaned = <<>>

\* ------------------------------------------------ process_episode
Truthy(value) == value # <<>> /\ value[1] # ""

\* Variant: the except clause lets the exception out of process_episode
ExceptRecord_reraise(ep, e) == [next |-> "raised", exc |-> e]

\* except Exception as e: the record returned
ExceptRecord(ep, e) ==
  [next |-> "returned",
   result |-> [season |-> ep.season, episode |-> ep.number,
               error |-> StrExc(e), status |-> "error"]]

\* From the return (or raise) of get_video_source to the next await or return
ResolveStep(title, ep, r) ==
  IF r.kind = "raise" THEN ExceptRecord(ep, r.exc)
  ELSE IF Truthy(r.value) THEN
    LET season_dir == SeasonDir(ep)
        filename == _sanitize_filename(RawFilename(title, ep))
    IN  [next |-> "downloading", video_url |-> r.value[1], filename |-> filename,
         file_path |-> JoinPath(title, season_dir, filename)]
  ELSE
    [next |-> "returned",
     result |-> [season |-> ep.season, episode |-> ep.number,
                 error |-> "Video URL not found", status |-> "failed"]]

\* From the return of download_file to the return of the record
DownloadStep(title, ep, loc, success) ==
  [series |-> title, season |-> ep.season, episode |-> ep.number,
   page_url |-> ep.url, video_url |-> loc.video_url, filename |-> loc.filename,
   local_path |-> loc.file_path,
   status |-> IF success THEN "downloaded" ELSE "download_failed"]

\* Variants: entry without looking at the value; a slot given back twice
CanAcquire_always(value) == TRUE

Release_never(value) == value
Release_twice(value) == value + 2

\* async with semaphore: entry is possible while the value is positive, and
\* leaving the block gives the slot back
CanAcquire(value) == value > 0
Release(value) == value + 1

\* Variant: the counter advanced by the batch size, not the batch's length
AddProcessed_fullBatch(processed, batch) == processed + batch_size

\* tasks[task_id]["processed"] += len(batch)
AddProcessed(processed, batch) == processed + Len(batch)

\* Variants: the slice one element too long; the slice without its upper end
Batch_ahead(eps, from) ==
  SubSeq(eps, from + 1, Min({from + batch_size + 1, Len(eps)}))

Batch_rest(eps, from) == SubSeq(eps, from + 1, Len(eps))

\* all_episodes[i:i+batch_size]
Batch(eps, from) == SubSeq(eps, from + 1, Min({from + batch_size, Len(eps)}))

\* Variant: the coroutines created for the batch read backwards
NewUnits_reversed(batch) ==
  [k \in 1..Len(batch) |-> [pc |-> "waiting", ep |-> batch[Len(batch) + 1 - k]]]

\* [process_episode(ep) for ep in batch]
NewUnits(batch) == [k \in 1..Len(batch) |-> [pc |-> "waiting", ep |-> batch[k]]]

\* except Exception as e: of the run routine
Fail(d, e) == SetKey(SetKey(d, "status", "failed"), "error", StrExc(e))

\* Variant: a file name that does not depend on the task id
SnapshotName_fixed(task_id) == <<"downloads_", "task", ".json">>

\* f"downloads_{task_id}.json"
SnapshotName(task_id) == <<"downloads_", task_id, ".json">>

\* ------------------------------------------------------- handlers
\* Variant: an id generator that repeats itself
uuid4_reuse(used) == Uuids[1]

\* str(uuid.uuid4()): an id no earlier call returned
uuid4(used) == Uuids[Min({n \in DOMAIN Uuids : Uuids[n] \notin used})]

start_download_all(url) ==
  /\ cpu = {}
  /\ Cardinality(DOMAIN tasks) < load.jobs
  /\ LET id == uuid4(DOMAIN tasks)
     IN  /\ tasks' = (id :> [id |-> id, status |-> "pending", anime_url |-> url]) @@ tasks
         /\ pc' = [pc EXCEPT ![id] = "queued"]
         /\ response' = [code |-> "200", task_id |-> id]
  /\ UNCHANGED <<files, anime_title, all_episodes, i, semaphore, unit, cpu,
                 detailsLog, resolverLog, transferLog, load, outOfOrder, sanVars>>

\* Variant: tasks.get(task_id), which answers 200 with null for an unknown id
Lookup_get(registry, id) ==
  IF id \notin DOMAIN registry
  THEN [code |-> "200", detail |-> "null", query |-> id]
  ELSE [code |-> "200", body |-> registry[id], query |-> id]

\* if task_id not in tasks: raise HTTPException(404); return tasks[task_id].
\* The answer is kept with the id that was asked for.
Lookup(registry, id) ==
  IF id \notin DOMAIN registry
  THEN [code |-> "404", detail |-> "Task not found", query |-> id]
  ELSE [code |-> "200", body |-> registry[id], query |-> id]

get_task_status(id) ==
  /\ cpu = {}
  /\ response' = Lookup(tasks, id)
  /\ UNCHANGED <<tasks, files, pc, anime_title, all_episodes, i, semaphore, unit,
                 cpu, detailsLog, resolverLog, transferLog, load, outOfOrder, sanVars>>

\* ------------------------------------- scrape_all_episodes_task
\* The background task starts: status = "processing", then awaits the details
RunStart(j) ==
  /\ cpu = {}
  /\ pc[j] = "queued"
  /\ tasks' = [tasks EXCEPT ![j] = SetKey(@, "status", "processing")]
  /\ pc' = [pc EXCEPT ![j] = "details"]
  /\ detailsLog' = [detailsLog EXCEPT ![j] = "running"]
  /\ response' = NoResponse
  /\ UNCHANGED <<files, anime_title, all_episodes, i, semaphore, unit, cpu,
                 resolverLog, transferLog, load, outOfOrder, sanVars>>

\* get_anime_details returns: the title, the episode list, the counters, and
\* either the first batch is gathered or (no episode) the loop is skipped
DetailsReturn(j, title, n) ==
  /\ cpu = {}
  /\ pc[j] = "details"
  /\ LET details == Details(title, n)
         t == SanitizeTitle(details.title)
         eps == Flatten(details.seasons)
         d == SetKey(SetKey(SetKey(SetKey(tasks[j], "anime_title", t),
                "total_episodes", Len(eps)), "processed", 0), "results", <<>>)
     IN  /\ anime_title' = [anime_title EXCEPT ![j] = t]
         /\ all_episodes' = [all_episodes EXCEPT ![j] = eps]
         /\ semaphore' = [semaphore EXCEPT ![j] = SemaphoreValue]
         /\ i' = [i EXCEPT ![j] = 0]
         /\ resolverLog' = [resolverLog EXCEPT ![j] = [k \in 1..Len(eps) |-> <<>>]]
         /\ transferLog' = [transferLog EXCEPT ![j] = [k \in 1..Len(eps) |-> <<>>]]
         /\ IF Len(eps) > 0
            THEN /\ tasks' = [tasks EXCEPT ![j] = d]
                 /\ unit' = [unit EXCEPT ![j] = NewUnits(Batch(eps, 0))]
                 /\ pc' = [pc EXCEPT ![j] = "gather"]
                 /\ cpu' = {}
            ELSE /\ tasks' = [tasks EXCEPT ![j] = SetKey(d, "status", "completed")]
                 /\ unit' = unit
                 /\ pc' = [pc EXCEPT ![j] = "save"]
                 /\ cpu' = {j}
  /\ detailsLog' = [detailsLog EXCEPT ![j] = "returned"]
  /\ response' = NoResponse
  /\ UNCHANGED <<files, load, outOfOrder, sanVars>>

\* get_anime_details raises
DetailsRaise(j, e) ==
  /\ cpu = {}
  /\ pc[j] = "details"
  /\ tasks' = [tasks EXCEPT ![j] = Fail(@, e)]
  /\ pc' = [pc EXCEPT ![j] = "done"]
  /\ detailsLog' = [detailsLog EXCEPT ![j] = "raised"]
  /\ response' = NoResponse
  /\ UNCHANGED <<files, anime_title, all_episodes, i, semaphore, unit, cpu,
                 resolverLog, transferLog, load, outOfOrder, sanVars>>

\* Unit k of the batch returns while a unit before it has not returned
Overtakes(units, k) == \E m \in 1..(k - 1) : units[m].pc # "returned"

\* A unit enters the semaphore and calls get_video_source
Acquire(j, k) ==
  /\ cpu = {}
  /\ k \in DOMAIN unit[j]
  /\ unit[j][k].pc = "waiting"
  /\ CanAcquire(semaphore[j])
  /\ semaphore' = [semaphore EXCEPT ![j] = @ - 1]
  /\ unit' = [unit EXCEPT ![j][k].pc = "resolving"]
  /\ resolverLog' = [resolverLog EXCEPT ![j][i[j] + k] = Append(@, "running")]
  /\ response' = NoResponse
  /\ UNCHANGED <<tasks, files, pc, anime_title, all_episodes, i, cpu, detailsLog,
                 transferLog, load, outOfOrder, sanVars>>

\* get_video_source returns or raises
ResolverReturn(j, k, r) ==
  /\ cpu = {}
  /\ k \in DOMAIN unit[j]
  /\ unit[j][k].pc = "resolving"
  /\ LET ep == unit[j][k].ep
         o == ResolveStep(anime_title[j], ep, r)
         n == i[j] + k
     IN  /\ resolverLog' =
              [resolverLog EXCEPT ![j][n][Len(resolverLog[j][n])] =
                 IF r.kind = "raise" THEN "raised"
                 ELSE IF Truthy(r.value) THEN "url" ELSE "nothing"]
         /\ IF o.next = "downloading"
            THEN /\ unit' = [unit EXCEPT ![j][k] =
                               [pc |-> "downloading", ep |-> ep, loc |-> o]]
                 /\ transferLog' =
                      [transferLog EXCEPT ![j][n] =
                         Append(@, [url |-> o.video_url, path |-> o.file_path,
                                    outcome |-> "running"])]
                 /\ semaphore' = semaphore
            ELSE /\ unit' = [unit EXCEPT ![j][k] = [pc |-> o.next, ep |-> ep, out |-> o]]
                 /\ transferLog' = transferLog
                 /\ semaphore' = [semaphore EXCEPT ![j] = Release(@)]
         /\ outOfOrder' = [outOfOrder EXCEPT ![j] =
                             @ \/ (o.next # "downloading" /\ Overtakes(unit[j], k))]
  /\ response' = NoResponse
  /\ UNCHANGED <<tasks, files, pc, anime_title, all_episodes, i, cpu, detailsLog,
                 load, sanVars>>

\* download_file returns
DownloadReturn(j, k, t) ==
  /\ cpu = {}
  /\ k \in DOMAIN unit[j]
  /\ unit[j][k].pc = "downloading"
  /\ LET ep == unit[j][k].ep
         rec == DownloadStep(anime_title[j], ep, unit[j][k].loc, download_file(t))
     IN  /\ unit' = [unit EXCEPT ![j][k] =
                       [pc |-> "returned", ep |-> ep,
                        out |-> [next |-> "returned", result |-> rec]]]
         /\ transferLog' = [transferLog EXCEPT
                ![j][i[j] + k][Len(transferLog[j][i[j] + k])].outcome =
                   IF download_file(t) THEN "true" ELSE "false"]
  /\ semaphore' = [semaphore EXCEPT ![j] = Release(@)]
  /\ outOfOrder' = [outOfOrder EXCEPT ![j] = @ \/ Overtakes(unit[j], k)]
  /\ response' = NoResponse
  /\ UNCHANGED <<tasks, files, pc, anime_title, all_episodes, i, cpu, detailsLog,
                 resolverLog, load, sanVars>>

\* await asyncio.gather(...) returns the batch's records in the batch's order
\* (or raises what a unit raised), and results.extend(results) runs
GatherReturn(j) ==
  /\ cpu = {}
  /\ pc[j] = "gather"
  /\ LET raised == {k \in DOMAIN unit[j] : unit[j][k].pc = "raised"}
     IN  IF raised # {}
         THEN /\ \E k \in raised :
                   tasks' = [tasks EXCEPT ![j] = Fail(@, unit[j][k].out.exc)]
              /\ pc' = [pc EXCEPT ![j] = "done"]
              /\ cpu' = {}
         ELSE /\ \A k \in DOMAIN unit[j] : unit[j][k].pc = "returned"
              /\ tasks' =
                   [tasks EXCEPT ![j] =
                      SetKey(@, "results",
                             @.results \o [k \in DOMAIN unit[j] |-> unit[j][k].out.result])]
              /\ pc' = [pc EXCEPT ![j] = "incr"]
              /\ cpu' = {j}
  /\ response' = NoResponse
  /\ UNCHANGED <<files, anime_title, all_episodes, i, semaphore, unit,
                 detailsLog, resolverLog, transferLog, load, outOfOrder, sanVars>>

\* processed += len(batch), then the next batch is gathered or, after the last
\* one, status = "completed"
Incr(j) ==
  /\ cpu = {j}
  /\ pc[j] = "incr"
  /\ LET d == SetKey(tasks[j], "processed", AddProcessed(tasks[j].processed, unit[j]))
         next == i[j] + batch_size
     IN  /\ i' = [i EXCEPT ![j] = next]
         /\ IF next < Len(all_episodes[j])
            THEN /\ tasks' = [tasks EXCEPT ![j] = d]
                 /\ unit' = [unit EXCEPT ![j] = NewUnits(Batch(all_episodes[j], next))]
                 /\ pc' = [pc EXCEPT ![j] = "gather"]
                 /\ cpu' = {}
            ELSE /\ tasks' = [tasks EXCEPT ![j] = SetKey(d, "status", "completed")]
                 /\ unit' = [unit EXCEPT ![j] = <<>>]
                 /\ pc' = [pc EXCEPT ![j] = "save"]
                 /\ cpu' = cpu
  /\ outOfOrder' = [outOfOrder EXCEPT ![j] = FALSE]
  /\ response' = NoResponse
  /\ UNCHANGED <<files, anime_title, all_episodes, semaphore, detailsLog,
                 resolverLog, transferLog, load, sanVars>>

\* with open(filename_json, "w") as f: json.dump(tasks[task_id], f), and the
\* routine's except clause when either raises
SaveSnapshot(j, w, e) ==
  /\ cpu = {j}
  /\ pc[j] = "save"
  /\ files' = IF w = "open_raises" THEN files
              ELSE (SnapshotName(j) :>
                      IF w = "ok" THEN [complete |-> TRUE, data |-> tasks[j]]
                      ELSE [complete |-> FALSE]) @@ files
  /\ tasks' = IF w = "ok" THEN tasks ELSE [tasks EXCEPT ![j] = Fail(@, e)]
  /\ pc' = [pc EXCEPT ![j] = "done"]
  /\ cpu' = {}
  /\ response' = NoResponse
  /\ UNCHANGED <<anime_title, all_episodes, i, semaphore, unit, detailsLog,
                 resolverLog, transferLog, load, outOfOrder, sanVars>>

Next ==
  \/ \E url \in AnimeUrls : start_download_all(url)
  \/ \E id \in JobIds : get_task_status(id)
  \/ \E j \in JobIds : RunStart(j)
  \/ \E j \in JobIds, title \in Titles, n \in 0..load.eps : DetailsReturn(j, title, n)
  \/ \E j \in JobIds, e \in DetailsExceptions : DetailsRaise(j, e)
  \/ \E j \in JobIds : \E k \in DOMAIN unit[j] : Acquire(j, k)
  \/ \E j \in JobIds, r \in ResolverOutcomes :
       \E k \in DOMAIN unit[j] : ResolverReturn(j, k, r)
  \/ \E j \in JobIds, t \in TransferOutcomes :
       \E k \in DOMAIN unit[j] : DownloadReturn(j, k, t)
  \/ \E j \in JobIds : GatherReturn(j)
  \/ \E j \in JobIds : Incr(j)
  \/ \E j \in JobIds, w \in WriteOutcomes, e \in WriteExceptions : SaveSnapshot(j, w, e)

Spec == Init /\ [][Next]_vars

\* ------------------------------------ the event loop keeps running
\* What the event loop owes job j: a background task that was added is
\* started, a collaborator call that was made returns or raises, a unit that
\* waits for a free semaphore enters it, a gather whose units have all
\* returned resumes the routine, and a routine that holds the loop runs on to
\* its next await.
Fairness(j) ==
  /\ WF_vars(RunStart(j))
  /\ WF_vars(\/ \E title \in Titles, n \in 0..load.eps : DetailsReturn(j, title, n)
             \/ \E e \in DetailsExceptions : DetailsRaise(j, e))
  /\ WF_vars(\E k \in DOMAIN unit[j] : Acquire(j, k))
  /\ WF_vars(\E r \in ResolverOutcomes : \E k \in DOMAIN unit[j] : ResolverReturn(j, k, r))
  /\ WF_vars(\E t \in TransferOutcomes : \E k \in DOMAIN unit[j] : DownloadReturn(j, k, t))
  /\ WF_vars(GatherReturn(j))
  /\ WF_vars(Incr(j))
  /\ WF_vars(\E w \in WriteOutcomes, e \in WriteExceptions : SaveSnapshot(j, w, e))

\* The loads the runs are followed to their end under: several jobs with
\* MaxEpsShared references each, or one job with up to one reference more
\* than a batch holds
FairLoads ==
  {[jobs |-> Cardinality(JobIds), eps |-> MaxEpsShared],
   [jobs |-> 1, eps |-> batch_size + 1]}

FairInit ==
  /\ tasks = <<>>
  /\ files = <<>>
  /\ pc = [j \in JobIds |-> "none"]
  /\ anime_title = [j \in JobIds |-> <<>>]
  /\ all_episodes = [j \in JobIds |-> <<>>]
  /\ i = [j \in JobIds |-> 0]
  /\ semaphore = [j \in JobIds |-> 0]
  /\ unit = [j \in JobIds |-> <<>>]
  /\ cpu = {}
  /\ response = NoResponse
  /\ detailsLog = [j \in JobIds |-> "none"]
  /\ resolverLog = [j \in JobIds |-> <<>>]
  /\ transferLog = [j \in JobIds |-> <<>>]
  /\ load \in FairLoads
  /\ outOfOrder = [j \in JobIds |-> FALSE]
  /\ name = <<>>
  /\ cleaned = <<>>

FairSpec == FairInit /\ [][Next]_vars /\ \A j \in JobIds : Fairness(j)

\* ------------------------------------ the sanitizer on its own
\* File names over the nine characters the sanitizer removes and two it keeps
NameChars == {IllegalChars[k] : k \in DOMAIN IllegalChars} \cup {"a", " "}
Names == UNION {[1..n -> NameChars] : n \in 0..MaxNameLen}

SanInit ==
  /\ tasks = <<>>
  /\ files = <<>>
  /\ pc = [j \in JobIds |-> "none"]
  /\ anime_title = [j \in JobIds |-> <<>>]
  /\ all_episodes = [j \in JobIds |-> <<>>]
  /\ i = [j \in JobIds |-> 0]
  /\ semaphore = [j \in JobIds |-> 0]
  /\ unit = [j \in JobIds |-> <<>>]
  /\ cpu = {}
  /\ response = NoResponse
  /\ detailsLog = [j \in JobIds |-> "none"]
  /\ resolverLog = [j \in JobIds |-> <<>>]
  /\ transferLog = [j \in JobIds |-> <<>>]
  /\ load = [jobs |-> 0, eps |-> 0]
  /\ outOfOrder = [j \in JobIds |-> FALSE]
  /\ name \in Names
  /\ cleaned = <<>>

\* filename = _sanitize_filename(...), on the name and then on what came back
SanitizeCall ==
  /\ Len(cleaned) < 2
  /\ cleaned' = Append(cleaned,
                  _sanitize_filename(IF cleaned = <<>> THEN name
                                     ELSE cleaned[Len(cleaned)]))
  /\ UNCHANGED <<tasks, files, pc, anime_title, all_episodes, i, semaphore, unit,
                 cpu, response, detailsLog, resolverLog, transferLog, load, outOfOrder, name>>

SanNext == SanitizeCall

SanSpec == SanInit /\ [][SanNext]_vars

\* ------------------------------------------------------- the claims
\* What a status poll counts: an unset field counts as 0 / empty
Processed(d) == IF Has(d, "processed") THEN d.processed ELSE 0
Results(d) == IF Has(d, "results") THEN d.results ELSE <<>>

OutcomeStatuses == {"downloaded", "download_failed", "failed", "error"}
Terminal == {"completed", "failed"}

\* The units of job j that are inside the semaphore-guarded section: from the
\* call of get_video_source to the return of the record
Inside(j) == {k \in DOMAIN unit[j] : unit[j][k].pc \in {"resolving", "downloading"}}

\* The job's run has ended
Ended(j) == pc[j] = "done"

\* C1: wherever a status poll can run (no coroutine is between two awaits), and
\* in every body a status poll returned, the processed counter equals the
\* number of outcome records.
C1_ProcessedMatchesResults ==
  /\ cpu = {} => \A j \in DOMAIN tasks : Processed(tasks[j]) = Len(Results(tasks[j]))
  /\ Has(response, "body") =>
       Processed(response.body) = Len(Results(response.body))

\* C1 witness: a poll answered between the first and the second batch
C1_Witness ==
  /\ Has(response, "body")
  /\ response.body.status = "processing"
  /\ Has(response.body, "processed")
  /\ response.body.processed = batch_size
  /\ Len(response.body.results) = batch_size
  /\ response.body.total_episodes > batch_size

\* C2 (as claimed): every change of a job's status is pending -> processing,
\* processing -> completed or processing -> failed, and a job enters the
\* registry as pending.
C2_StatusLifecycle ==
  [][\A j \in DOMAIN tasks' :
       IF j \in DOMAIN tasks
       THEN \/ tasks'[j].status = tasks[j].status
            \/ <<tasks[j].status, tasks'[j].status>> \in
                 {<<"pending", "processing">>, <<"processing", "completed">>,
                  <<"processing", "failed">>}
       ELSE tasks'[j].status = "pending"]_vars

\* C3 (as claimed): once a job's status is completed or failed, no step changes
\* any field of its Job State.
C3_TerminalImmutable ==
  [][\A j \in DOMAIN tasks :
       tasks[j].status \in Terminal => tasks'[j] = tasks[j]]_vars

\* C4: every unit that has left process_episode has returned a record whose
\* status is one of the four outcome statuses (none has raised), and every
\* record in a job's results has such a status.
C4_UnitsReturnRecords ==
  /\ \A j \in JobIds : \A k \in DOMAIN unit[j] :
       unit[j][k].pc \notin {"waiting", "resolving", "downloading"} =>
         /\ unit[j][k].pc = "returned"
         /\ unit[j][k].out.result.status \in OutcomeStatuses
  /\ \A j \in DOMAIN tasks : \A n \in DOMAIN Results(tasks[j]) :
       Results(tasks[j])[n].status \in OutcomeStatuses

\* C4 witness: one batch whose units returned all four statuses, the Resolver
\* having raised for one and returned nothing for another
C4_Witness ==
  \E j \in JobIds :
    /\ {unit[j][k].out.result.status :
          k \in {m \in DOMAIN unit[j] : unit[j][m].pc = "returned"}} = OutcomeStatuses
    /\ \E n \in DOMAIN resolverLog[j] : resolverLog[j][n] = <<"raised">>
    /\ \E n \in DOMAIN resolverLog[j] : resolverLog[j][n] = <<"nothing">>

\* C5 (as claimed): a job whose Resolver raised on some references and returned
\* a URL on all others, with every transfer succeeding, ends completed with an
\* error record for each reference the Resolver raised on (same season and
\* number) and a downloaded record for each other one.
C5_ResolverRaisesContained ==
  \A j \in DOMAIN tasks :
    ( /\ Ended(j)
      /\ detailsLog[j] = "returned"
      /\ \A n \in DOMAIN resolverLog[j] :
           \/ resolverLog[j][n] = <<"raised">>
           \/ /\ resolverLog[j][n] = <<"url">>
              /\ Len(transferLog[j][n]) = 1
              /\ transferLog[j][n][1].outcome = "true" )
    => /\ tasks[j].status = "completed"
       /\ Len(tasks[j].results) = Len(all_episodes[j])
       /\ \A n \in DOMAIN all_episodes[j] :
            /\ tasks[j].results[n].season = all_episodes[j][n].season
            /\ tasks[j].results[n].episode = all_episodes[j][n].number
            /\ tasks[j].results[n].status =
                 IF resolverLog[j][n] = <<"raised">> THEN "error" ELSE "downloaded"

\* C6 (as claimed): a job whose Resolver returned no media URL for every
\* reference ends completed with one failed record per reference, each with
\* the error "Video URL not found", processed = total_episodes = the number of
\* references, and no transfer attempted.
C6_NothingFound ==
  \A j \in DOMAIN tasks :
    ( /\ Ended(j)
      /\ detailsLog[j] = "returned"
      /\ \A n \in DOMAIN resolverLog[j] : resolverLog[j][n] = <<"nothing">> )
    => /\ tasks[j].status = "completed"
       /\ Len(tasks[j].results) = Len(all_episodes[j])
       /\ tasks[j].processed = Len(all_episodes[j])
       /\ tasks[j].total_episodes = Len(all_episodes[j])
       /\ \A n \in DOMAIN tasks[j].results :
            /\ tasks[j].results[n].status = "failed"
            /\ tasks[j].results[n].error = "Video URL not found"
       /\ \A n \in DOMAIN transferLog[j] : transferLog[j][n] = <<>>

\* C7 (as claimed): a job whose Details Resolver raised is failed with a
\* non-empty error message and no outcome record, and no Resolver or
\* Transferer call was made for it.
C7_DetailsFailure ==
  \A j \in DOMAIN tasks :
    detailsLog[j] = "raised" =>
      /\ tasks[j].status = "failed"
      /\ Has(tasks[j], "error")
      /\ tasks[j].error # ""
      /\ Results(tasks[j]) = <<>>
      /\ \A n \in DOMAIN resolverLog[j] : resolverLog[j][n] = <<>>
      /\ \A n \in DOMAIN transferLog[j] : transferLog[j][n] = <<>>

\* The values the counter may take over N references: the multiples of the
\* batch size, and N
AllowedCounts(N) == {m \in 0..N : m % batch_size = 0 \/ m = N}

CountsAllowed(d) ==
  Has(d, "processed") =>
    /\ d.processed \in AllowedCounts(d.total_episodes)
    /\ Len(d.results) \in AllowedCounts(d.total_episodes)

\* C8: the processed counter (in the registry and in every poll's answer) only
\* takes the values 0, b, 2b, ..., N, and every flush appends b records, or the
\* N mod b remaining ones, to the ones already there.
C8_BatchFlushes ==
  /\ [](/\ \A j \in DOMAIN tasks : CountsAllowed(tasks[j])
        /\ Has(response, "body") => CountsAllowed(response.body))
  /\ [][\A j \in DOMAIN tasks :
          Results(tasks'[j]) # Results(tasks[j]) =>
            LET old == Results(tasks[j])
                new == Results(tasks'[j])
            IN  /\ Len(new) - Len(old) =
                     Min({batch_size, tasks[j].total_episodes - Len(old)})
                /\ SubSeq(new, 1, Len(old)) = old]_vars

\* C8 witness: a job over more references than one batch holds, all flushed
C8_Witness ==
  \E j \in DOMAIN tasks :
    /\ Has(tasks[j], "processed")
    /\ tasks[j].total_episodes > batch_size
    /\ tasks[j].processed = tasks[j].total_episodes
    /\ Len(tasks[j].results) = tasks[j].total_episodes

\* C9: in every job run the number of units inside the semaphore-guarded
\* section never exceeds the semaphore's initial value.
C9_ConcurrencyLimit ==
  \A j \in JobIds : Cardinality(Inside(j)) <= SemaphoreValue

\* C9 witness: a full batch with one unit inside, one waiting, one returned
C9_Witness ==
  \E j \in JobIds :
    /\ Len(unit[j]) = batch_size
    /\ Cardinality(Inside(j)) = SemaphoreValue
    /\ \E k \in DOMAIN unit[j] : unit[j][k].pc = "waiting"
    /\ \E k \in DOMAIN unit[j] : unit[j][k].pc = "returned"

\* C10 (as claimed): over all jobs of the registry, at most one unit is inside
\* the Resolver or Transferer call.
C10_GlobalSerialization ==
  Cardinality({jk \in JobIds \X (1..batch_size) :
                 jk[2] \in Inside(jk[1])}) <= 1

\* C10 (amended): no two units of the same job are inside the Resolver or
\* Transferer call together, so no more units are inside than jobs are
\* gathering a batch.
C10_SerializedPerJob ==
  /\ \A j \in JobIds : \A k1, k2 \in Inside(j) : k1 = k2
  /\ Cardinality({jk \in JobIds \X (1..batch_size) : jk[2] \in Inside(jk[1])})
       <= Cardinality({j \in JobIds : pc[j] = "gather"})

\* C10 witness: two jobs, each with a unit inside the Resolver call
C10_Witness ==
  \E j1, j2 \in JobIds :
    /\ j1 # j2
    /\ \E k \in DOMAIN unit[j1] : unit[j1][k].pc = "resolving"
    /\ \E k \in DOMAIN unit[j2] : unit[j2][k].pc = "resolving"

\* C11: a step that adds a job adds exactly one, under an id the registry did
\* not hold, changes no other job and answers with that id; and in the state
\* in which submit answers, the job is pending and none of its collaborators
\* has been called.
C11_SubmitReturnsPending ==
  /\ [](Has(response, "task_id") =>
          /\ response.task_id \in DOMAIN tasks
          /\ tasks[response.task_id].status = "pending"
          /\ tasks[response.task_id].id = response.task_id
          /\ detailsLog[response.task_id] = "none"
          /\ resolverLog[response.task_id] = <<>>
          /\ transferLog[response.task_id] = <<>>)
  /\ [][DOMAIN tasks' # DOMAIN tasks =>
          \E id \in JobIds \ DOMAIN tasks :
            /\ DOMAIN tasks' = DOMAIN tasks \cup {id}
            /\ response' = [code |-> "200", task_id |-> id]
            /\ \A j \in DOMAIN tasks : tasks'[j] = tasks[j]]_vars

\* C11 witness: submit answers for a second job while the first one is
\* gathering a batch
C11_Witness ==
  /\ Has(response, "task_id")
  /\ response.task_id = Uuids[2]
  /\ pc[Uuids[1]] = "gather"

\* C12: a query for an id the registry does not hold is answered 404, one for
\* an id it holds is answered with that job's state, and a step that answers
\* a query changes neither the registry nor anything else of the program.
C12_QueryReadOnly ==
  /\ [](Has(response, "query") =>
          IF response.query \in DOMAIN tasks
          THEN response.code = "200" /\ response.body = tasks[response.query]
          ELSE response.code = "404")
  /\ [][Has(response', "query") =>
          UNCHANGED <<tasks, files, pc, anime_title, all_episodes, i, semaphore,
                      unit, cpu, detailsLog, resolverLog, transferLog>>]_vars

\* C12 witness: a 404 for an unknown id while a job is gathering a batch
C12_Witness ==
  /\ response.code = "404"
  /\ response.query \notin DOMAIN tasks
  /\ \E j \in DOMAIN tasks : pc[j] = "gather"

\* C13 (as claimed): every job that has processed all its batches has a
\* snapshot under its own id, complete and equal to its final Job State, which
\* is completed with processed = total_episodes = the number of records; a
\* snapshot exists only for such a job and only under the name of a job; and a
\* failed job has no snapshot.
C13_SnapshotPerCompletedJob ==
  /\ \A f \in DOMAIN files : \E j \in DOMAIN tasks : f = SnapshotName(j)
  /\ \A j \in DOMAIN tasks :
       /\ ( /\ Ended(j)
            /\ Has(tasks[j], "total_episodes")
            /\ Processed(tasks[j]) = tasks[j].total_episodes )
          => /\ SnapshotName(j) \in DOMAIN files
             /\ files[SnapshotName(j)].complete
             /\ files[SnapshotName(j)].data = tasks[j]
             /\ tasks[j].status = "completed"
             /\ Len(tasks[j].results) = tasks[j].total_episodes
       /\ SnapshotName(j) \in DOMAIN files =>
            /\ Ended(j)
            /\ Processed(tasks[j]) = Len(all_episodes[j])
       /\ tasks[j].status = "failed" => SnapshotName(j) \notin DOMAIN files

\* No character of the segment is one of the nine the sanitizer removes
NoIllegalChar(segment) ==
  \A k \in DOMAIN segment : \A c \in DOMAIN IllegalChars : segment[k] # IllegalChars[c]

\* C14 (as claimed): in every path handed to download_file, the title
\* directory, the season directory and the file name contain none of the
\* characters < > : " / \ | ? *.
C14_PathSegmentsClean ==
  \A j \in JobIds : \A n \in DOMAIN transferLog[j] :
    \A m \in DOMAIN transferLog[j][n] :
      \A g \in 2..Len(transferLog[j][n][m].path) :
        NoIllegalChar(transferLog[j][n][m].path[g])

\* C15: sanitizing what the sanitizer returned gives the same name back.
C15_SanitizeIdempotent == Len(cleaned) = 2 => cleaned[2] = cleaned[1]

\* C15 witness: a name from which the first call removed some characters and
\* kept others, sanitized twice
C15_Witness ==
  /\ Len(cleaned) = 2
  /\ cleaned[1] # name
  /\ cleaned[1] # <<>>

\* The index before the first reference of the batch that holds reference n
BatchStart(n) == ((n - 1) \div batch_size) * batch_size

\* C16: when the Resolver has been called for a reference, the records of all
\* references of the earlier batches are in the job's results, in order, and
\* the processed counter has been advanced over them.
C16_BatchesInOrder ==
  \A j \in DOMAIN tasks : \A n \in DOMAIN resolverLog[j] :
    resolverLog[j][n] # <<>> =>
      /\ Len(Results(tasks[j])) >= BatchStart(n)
      /\ Processed(tasks[j]) >= BatchStart(n)
      /\ \A m \in 1..BatchStart(n) :
           /\ tasks[j].results[m].season = all_episodes[j][m].season
           /\ tasks[j].results[m].episode = all_episodes[j][m].number

\* C16 witness: a unit of the second batch is inside the Resolver
C16_Witness ==
  \E j \in DOMAIN tasks :
    /\ i[j] = batch_size
    /\ Len(tasks[j].results) = batch_size
    /\ \E k \in DOMAIN unit[j] : unit[j][k].pc = "resolving"

\* C17: the Resolver is called at most once for a reference and exactly once
\* for every reference whose record is in the results; download_file is
\* called at most once for a reference, only after the Resolver returned a
\* URL for it and with that URL, and never after a raise or an empty answer.
C17_SingleAttempt ==
  \A j \in DOMAIN tasks : \A n \in DOMAIN resolverLog[j] :
    /\ Len(resolverLog[j][n]) <= 1
    /\ Len(transferLog[j][n]) <= 1
    /\ n <= Len(Results(tasks[j])) =>
         /\ Len(resolverLog[j][n]) = 1
         /\ resolverLog[j][n][1] # "running"
    /\ transferLog[j][n] # <<>> =>
         /\ resolverLog[j][n] = <<"url">>
         /\ transferLog[j][n][1].url \in VideoUrls
    /\ resolverLog[j][n] \in {<<"raised">>, <<"nothing">>, <<"running">>} =>
         transferLog[j][n] = <<>>

\* C17 witness: a finished job with a reference the Resolver raised on, one it
\* found nothing for, and one whose transfer failed
C17_Witness ==
  \E j \in DOMAIN tasks :
    /\ Ended(j)
    /\ \E n \in DOMAIN resolverLog[j] : resolverLog[j][n] = <<"raised">>
    /\ \E n \in DOMAIN resolverLog[j] : resolverLog[j][n] = <<"nothing">>
    /\ \E n \in DOMAIN transferLog[j] :
         /\ transferLog[j][n] # <<>>
         /\ transferLog[j][n][1].outcome = "false"

\* C18 (as claimed): a record with status downloaded or download_failed has
\* video_url, local_path and filename, and every record whose status is not
\* downloaded has an error message.
C18_MediaOrError ==
  \A j \in DOMAIN tasks : \A n \in DOMAIN Results(tasks[j]) :
    LET rec == tasks[j].results[n]
    IN  /\ rec.status \in {"downloaded", "download_failed"} =>
             /\ Has(rec, "video_url")
             /\ Has(rec, "local_path")
             /\ Has(rec, "filename")
        /\ rec.status # "downloaded" => Has(rec, "error")

\* C19 (as claimed): every record carries the season, the number and the page
\* URL of the reference it was produced from.
C19_RecordCarriesReference ==
  \A j \in DOMAIN tasks : \A n \in DOMAIN Results(tasks[j]) :
    LET rec == tasks[j].results[n]
    IN  /\ Has(rec, "season") /\ rec.season = all_episodes[j][n].season
        /\ Has(rec, "episode") /\ rec.episode = all_episodes[j][n].number
        /\ Has(rec, "page_url") /\ rec.page_url = all_episodes[j][n].url

\* The records process_episode returns for reference n of job j when it is
\* given what the Resolver and download_file answered for that reference
ExpectedRecords(j, n) ==
  LET ep == all_episodes[j][n]
      title == anime_title[j]
  IN  IF resolverLog[j][n] = <<"raised">>
      THEN {ExceptRecord(ep, e).result : e \in ResolverExceptions}
      ELSE IF resolverLog[j][n] = <<"nothing">>
      THEN {ResolveStep(title, ep, [kind |-> "return", value |-> <<>>]).result}
      ELSE IF resolverLog[j][n] = <<"url">> /\ Len(transferLog[j][n]) = 1
      THEN LET u == transferLog[j][n][1].url
               loc == ResolveStep(title, ep, [kind |-> "return", value |-> <<u>>])
           IN  {DownloadStep(title, ep, loc, transferLog[j][n][1].outcome = "true")}
      ELSE {}

\* The Job State the run routine of job j ends with when it runs by itself
\* and its collaborators answer as they answered job j
FinalAsAlone(j) ==
  LET base == [id |-> j, status |-> "processing", anime_url |-> tasks[j].anime_url]
      N == Len(all_episodes[j])
  IN  IF detailsLog[j] = "raised"
      THEN tasks[j] \in {Fail(base, e) : e \in DetailsExceptions}
      ELSE /\ detailsLog[j] = "returned"
           /\ Len(Results(tasks[j])) = N
           /\ \A n \in 1..N : tasks[j].results[n] \in ExpectedRecords(j, n)
           /\ LET d == SetKey(SetKey(SetKey(SetKey(SetKey(base,
                         "anime_title", anime_title[j]), "total_episodes", N),
                         "processed", N), "results", tasks[j].results),
                         "status", "completed")
                  written == /\ SnapshotName(j) \in DOMAIN files
                             /\ files[SnapshotName(j)].complete
              IN  IF written THEN tasks[j] = d
                  ELSE tasks[j] \in {Fail(d, e) : e \in WriteExceptions}

\* C20: a step that changes the Job State of a job is a step of that job's
\* own run routine: it is no request handler's step, and it changes neither
\* the Job State nor the position nor the units of any other job; and the Job
\* State a job ends with is the one its own collaborator answers determine.
C20_JobIsolation ==
  /\ [](\A j \in DOMAIN tasks : Ended(j) => FinalAsAlone(j))
  /\ [][\A b \in DOMAIN tasks :
          /\ b \in DOMAIN tasks'
          /\ tasks'[b] # tasks[b] =>
               /\ response' = NoResponse
               /\ pc[b] \notin {"none", "done"}
               /\ \A a \in JobIds \ {b} :
                    /\ pc'[a] = pc[a]
                    /\ unit'[a] = unit[a]
                    /\ a \in DOMAIN tasks => tasks'[a] = tasks[a]]_vars

\* C20 witness: the job submitted second has ended with a record while the
\* job submitted first is in the middle of a transfer
C20_Witness ==
  /\ Uuids[2] \in DOMAIN tasks
  /\ Ended(Uuids[2])
  /\ Len(Results(tasks[Uuids[2]])) > 0
  /\ pc[Uuids[1]] = "gather"
  /\ \E k \in DOMAIN unit[Uuids[1]] : unit[Uuids[1]][k].pc = "downloading"

\* s is an initial part of t
IsPrefix(s, t) == Len(s) <= Len(t) /\ SubSeq(t, 1, Len(s)) = s

\* C21: no step removes, reorders or rewrites a record of a job (the results
\* before the step are an initial part of the results after it), no step
\* lowers the processed counter, and the counter never exceeds total_episodes.
C21_AppendOnly ==
  /\ [](\A j \in DOMAIN tasks :
          Has(tasks[j], "processed") => tasks[j].processed <= tasks[j].total_episodes)
  /\ [][\A j \in DOMAIN tasks :
          /\ j \in DOMAIN tasks'
          /\ IsPrefix(Results(tasks[j]), Results(tasks'[j]))
          /\ Processed(tasks'[j]) >= Processed(tasks[j])
          /\ Has(tasks[j], "results") => Has(tasks'[j], "results")]_vars

\* C21 witness: a job that has ended after a second batch was appended to the
\* records of the first
C21_Witness ==
  \E j \in DOMAIN tasks :
    /\ Ended(j)
    /\ Len(Results(tasks[j])) > batch_size
    /\ tasks[j].processed = tasks[j].total_episodes

\* C22: a job never has more records than references, and its n-th record
\* has the season and the number of its n-th reference, whatever the order in
\* which the units of a batch returned; a job that has ended after its last
\* batch has one record per reference.
C22_InputOrder ==
  \A j \in DOMAIN tasks :
    /\ Len(Results(tasks[j])) <= Len(all_episodes[j])
    /\ \A n \in DOMAIN Results(tasks[j]) :
         /\ tasks[j].results[n].season = all_episodes[j][n].season
         /\ tasks[j].results[n].episode = all_episodes[j][n].number
    /\ (Ended(j) /\ detailsLog[j] = "returned") =>
         Len(Results(tasks[j])) = Len(all_episodes[j])

\* C22 witness: the records of a batch have just been appended, and in that
\* batch a unit had returned before a unit that stands earlier in it
C22_Witness ==
  \E j \in DOMAIN tasks :
    /\ pc[j] = "incr"
    /\ outOfOrder[j]
    /\ Len(tasks[j].results) = batch_size
    /\ tasks[j].results[1].status # tasks[j].results[batch_size].status

\* C23: a job in the registry gets to the end of its run routine with status
\* completed or failed, and while a job gathers a batch with a unit waiting
\* and no unit inside the semaphore, the semaphore is free.
C23_Terminates ==
  /\ [](\A j \in JobIds :
          ( /\ pc[j] = "gather"
            /\ Inside(j) = {}
            /\ \E k \in DOMAIN unit[j] : unit[j][k].pc = "waiting" )
          => CanAcquire(semaphore[j]))
  /\ \A j \in JobIds :
       (j \in DOMAIN tasks) ~> (Ended(j) /\ tasks[j].status \in Terminal)

\* C23 witness: a job of more than one batch has ended completed with its
\* snapshot written
C23_Witness ==
  \E j \in DOMAIN tasks :
    /\ Ended(j)
    /\ tasks[j].status = "completed"
    /\ Len(all_episodes[j]) > batch_size
    /\ SnapshotName(j) \in DOMAIN files

====
